---- MODULE Spec2Model ----
(***************************************************************************)
(* A state-machine model of the EvalAI challenge backend excerpt:          *)
(*   apps/accounts/permissions.py   HasVerifiedEmail.has_permission        *)
(*   apps/challenges/models.py      save_challenge_slug,                   *)
(*                                  Challenge.load_from_zip,               *)
(*                                  ChallengePhase.save                    *)
(* Database tables are sequences of rows; the primary key of a row is its  *)
(* position (auto-increment from 1, rows are never deleted here).          *)
(* Python strings are TLA+ strings.  None is the string "None" where a     *)
(* string is expected, the empty tuple where an object is expected and 0   *)
(* where a primary key is expected (no row has primary key 0).             *)
(***************************************************************************)
EXTENDS Integers, Sequences, FiniteSets, TLC

VARIABLES
    \* ---- configuration and identity store (allauth EmailAddress rows)
    ACCOUNT_EMAIL_REQUIRED, \* settings.ACCOUNT_EMAIL_REQUIRED
    email_address,          \* set of EmailAddress rows [user, email, verified]
    permission,             \* the last has_permission call: [user, result]
    \* ---- database tables of the challenges app
    challenge,
    leaderboard,
    challenge_phase,
    dataset_split,
    challenge_phase_split,
    participant_team,
    participant,
    \* ---- the running Challenge.load_from_zip call (its locals)
    pc,                               \* position in load_from_zip
    zip_ref,                          \* the archive handed to the call
    yaml_file_data,                   \* the parsed manifest (mutated in place)
    extracted_folder_name,
    challenge_image_file,
    challenge_evaluation_script_file,
    test_annotation_file_path,
    challenge_test_annotation_file,
    challenge_pk,                     \* pk of the local `challenge` instance
    leaderboard_ids,
    challenge_phase_ids,
    dataset_split_ids,
    idx,                              \* position of the running for loop
    raised,                           \* the exception that ended the call, or None
    \* ---- history
    created,                          \* rows persisted by the running call, in order
    phase_saved,                      \* [pk, instance]: the instance as it was handed to the
                                      \* last ChallengePhase.save that stored a row
    calls,                            \* number of load_from_zip calls started
    \* ---- scripts/pymalta_challenge.py: the tables it writes and its run()
    auth_user,                        \* User rows
    host_team,                        \* ChallengeHostTeam rows
    challenge_host,                   \* ChallengeHost rows
    run_pc,                           \* position in run()
    savepoint,                        \* the tables as transaction.atomic() found them
    run_start,                        \* history: the tables when run() was entered
    \* ---- evaluation_script/main.py
    evaluation                        \* the last evaluate call: its arguments and output

dbvars == <<challenge, leaderboard, challenge_phase, dataset_split,
            challenge_phase_split, participant_team, participant>>
gatevars == <<ACCOUNT_EMAIL_REQUIRED, email_address, permission>>
localvars == <<pc, zip_ref, yaml_file_data, extracted_folder_name,
               challenge_image_file, challenge_evaluation_script_file,
               test_annotation_file_path, challenge_test_annotation_file,
               challenge_pk, leaderboard_ids, challenge_phase_ids,
               dataset_split_ids, idx, raised>>
histvars == <<created, phase_saved, calls>>
scriptvars == <<auth_user, host_team, challenge_host, run_pc, savepoint, run_start>>
outervars == <<scriptvars, evaluation>>
vars == <<gatevars, dbvars, localvars, histvars, outervars>>

None == "None"          \* None, where a string may stand
Unbound == "<unbound>"  \* a local string not assigned yet
NoObject == <<>>        \* None, where an object (file, manifest, instance) may stand
UnboundLocal == <<>>    \* a local object not assigned yet
NoPk == 0               \* instance.pk of an instance that was never saved

(***************************************************************************)
(* Bounds of the model.                                                    *)
(***************************************************************************)
MaxCalls == 2        \* load_from_zip calls in one behaviour

(***************************************************************************)
(* Python string operations.                                               *)
(***************************************************************************)
Char(s, i) == SubSeq(s, i, i)

endswith(s, suffix) ==
    /\ Len(s) >= Len(suffix)
    /\ SubSeq(s, Len(s) - Len(suffix) + 1, Len(s)) = suffix

startswith(s, prefix) ==
    /\ Len(s) >= Len(prefix)
    /\ SubSeq(s, 1, Len(prefix)) = prefix

\* s[:n]
Truncate(s, n) == IF Len(s) <= n THEN s ELSE SubSeq(s, 1, n)

\* position of the first occurrence of sub in s, 0 when there is none
find(s, sub) ==
    LET hits == {i \in 1..(Len(s) - Len(sub) + 1) :
                    SubSeq(s, i, i + Len(sub) - 1) = sub}
    IN IF hits = {} THEN 0 ELSE CHOOSE i \in hits : \A j \in hits : i <= j

\* s.split(sep)[0], sep not empty
split_first(s, sep) ==
    IF find(s, sep) = 0 THEN s ELSE SubSeq(s, 1, find(s, sep) - 1)

\* os.path.basename: what follows the last "/"
basename(p) ==
    LET slashes == {i \in 1..Len(p) : Char(p, i) = "/"}
        last == IF slashes = {} THEN 0
                ELSE CHOOSE i \in slashes : \A j \in slashes : j <= i
    IN SubSeq(p, last + 1, Len(p))

\* os.path.join of relative components below BASE_LOCATION
join(folder, path) == folder \o path

LowerChar(c) ==
    CASE c = "A" -> "a" [] c = "B" -> "b" [] c = "C" -> "c" [] c = "D" -> "d"
      [] c = "E" -> "e" [] c = "F" -> "f" [] c = "G" -> "g" [] c = "H" -> "h"
      [] c = "I" -> "i" [] c = "J" -> "j" [] c = "K" -> "k" [] c = "L" -> "l"
      [] c = "M" -> "m" [] c = "N" -> "n" [] c = "O" -> "o" [] c = "P" -> "p"
      [] c = "Q" -> "q" [] c = "R" -> "r" [] c = "S" -> "s" [] c = "T" -> "t"
      [] c = "U" -> "u" [] c = "V" -> "v" [] c = "W" -> "w" [] c = "X" -> "x"
      [] c = "Y" -> "y" [] c = "Z" -> "z" [] OTHER -> c

\* s.lower(), one half of s after the other
RECURSIVE lower(_)
lower(s) ==
    IF s = "" THEN ""
    ELSE IF Len(s) = 1 THEN LowerChar(s)
    ELSE lower(SubSeq(s, 1, Len(s) \div 2)) \o lower(SubSeq(s, Len(s) \div 2 + 1, Len(s)))

\* s.replace(old, new) for a one-character old
RECURSIVE replace(_, _, _)
replace(s, old, new) ==
    IF s = "" THEN ""
    ELSE IF Len(s) = 1 THEN (IF s = old THEN new ELSE s)
    ELSE replace(SubSeq(s, 1, Len(s) \div 2), old, new)
         \o replace(SubSeq(s, Len(s) \div 2 + 1, Len(s)), old, new)

Digit(d) == Char("0123456789", d + 1)

\* str(n) for n >= 0
RECURSIVE str(_)
str(n) == IF n < 10 THEN Digit(n) ELSE str(n \div 10) \o Digit(n % 10)

\* "{}".format(pk): an unsaved instance has pk None
format_pk(pk) == IF pk = NoPk THEN "None" ELSE str(pk)

Min(a, b) == IF a < b THEN a ELSE b

(***************************************************************************)
(* apps/accounts/permissions.py                                            *)
(***************************************************************************)
Users == {"alice", "bob"}
AnonymousUser == "AnonymousUser"
Addresses == {"a@x.org", "b@x.org", "c@x.org"}

is_anonymous(user) == user = AnonymousUser

\* has_permission without the verified filter
has_permission_any_address(user) ==
    IF is_anonymous(user)
    THEN TRUE
    ELSE {e \in email_address : e.user = user} # {}

\* HasVerifiedEmail.has_permission(request, view), request.user = user
has_permission(user) ==
    IF is_anonymous(user)
    THEN TRUE
    ELSE LET email_query == {e \in email_address : e.user = user}
             require_verified == ACCOUNT_EMAIL_REQUIRED
             filtered == IF require_verified
                         THEN {e \in email_query : e.verified}
                         ELSE email_query
         IN filtered # {}

\* A request passes the permission class; nothing stored changes.
HasPermission(user) ==
    /\ permission' = [user |-> user, result |-> has_permission(user)]
    /\ UNCHANGED <<ACCOUNT_EMAIL_REQUIRED, email_address>>
    /\ UNCHANGED <<dbvars, localvars, histvars, outervars>>

\* EmailAddress.objects.create(user=, email=, verified=)
CreateEmailAddress(user, email, verified) ==
    /\ \A e \in email_address : e.email # email
    /\ email_address' = email_address \cup
           {[user |-> user, email |-> email, verified |-> verified]}
    /\ UNCHANGED <<ACCOUNT_EMAIL_REQUIRED, permission>>
    /\ UNCHANGED <<dbvars, localvars, histvars, outervars>>

\* The owner confirms an address.
VerifyEmailAddress(email) ==
    /\ \E e \in email_address : e.email = email /\ ~e.verified
    /\ email_address' = {IF e.email = email THEN [e EXCEPT !.verified = TRUE] ELSE e :
                            e \in email_address}
    /\ UNCHANGED <<ACCOUNT_EMAIL_REQUIRED, permission>>
    /\ UNCHANGED <<dbvars, localvars, histvars, outervars>>

\* An address is removed from the account.
DeleteEmailAddress(email) ==
    /\ \E e \in email_address : e.email = email
    /\ email_address' = {e \in email_address : e.email # email}
    /\ UNCHANGED <<ACCOUNT_EMAIL_REQUIRED, permission>>
    /\ UNCHANGED <<dbvars, localvars, histvars, outervars>>

(***************************************************************************)
(* apps/challenges/models.py: helpers that live outside the excerpt.       *)
(***************************************************************************)
\* base.utils.get_slug: the slugified title (lower case, spaces to hyphens)
get_slug(title) == lower(replace(title, " ", "-"))

\* base.utils.get_queue_name: a queue name derived from the challenge title
get_queue_name(title) == get_slug(title) \o "-queue"

\* challenges.utils.get_file_content / file.read(): the bytes stored at a path
get_file_content(path) == "content of " \o path

\* django ContentFile(content, name)
ContentFile(content, name) == [content |-> content, name |-> name]

\* bool(value) of a manifest value
truthy(value) == value # None /\ value # ""

(***************************************************************************)
(* save_challenge_slug (pre_save receiver) and Model.save of Challenge     *)
(***************************************************************************)
\* The instance as the pre_save receiver leaves it; pk is None before the
\* row has been inserted.
save_challenge_slug(instance, pk) ==
    [instance EXCEPT !.slug = get_slug(instance.title) \o "-" \o format_pk(pk)]

(***************************************************************************)
(* ChallengePhase.save                                                     *)
(***************************************************************************)
\* ChallengePhase.save without the clamp
ChallengePhase_save_unclamped(instance) == instance

\* The instance as ChallengePhase.save hands it to Model.save.
ChallengePhase_save(instance) ==
    IF instance.max_submissions_per_day < instance.max_concurrent_submissions_allowed
    THEN [instance EXCEPT !.max_concurrent_submissions_allowed =
                                instance.max_submissions_per_day]
    ELSE instance

(***************************************************************************)
(* Challenge.load_from_zip                                                 *)
(***************************************************************************)
\* os.path.isfile below BASE_LOCATION after zip_ref.extractall
isfile(namelist, path) ==
    /\ \E i \in 1..Len(namelist) : namelist[i] = path
    /\ ~endswith(path, "/")

\* is_yaml_name without the __MACOSX test
is_yaml_name_anywhere(name) ==
    endswith(name, ".yaml") \/ endswith(name, ".yml")

is_yaml_name(name) ==
    /\ endswith(name, ".yaml") \/ endswith(name, ".yml")
    /\ ~startswith(name, "__MACOSX")

\* the for/else over zip_ref.namelist(): the first manifest, 0 when the
\* loop ends without break
yaml_index(namelist) ==
    LET hits == {i \in 1..Len(namelist) : is_yaml_name(namelist[i])}
    IN IF hits = {} THEN 0 ELSE CHOOSE i \in hits : \A j \in hits : i <= j

is_image_name(image) ==
    endswith(image, ".jpg") \/ endswith(image, ".jpeg") \/ endswith(image, ".png")

\* path.endswith(".html") and isfile(path)
is_html_file(namelist, path) == endswith(path, ".html") /\ isfile(namelist, path)

\* The four long-form fields of the manifest after lines 247-300.
resolve_html_fields(namelist, folder, data) ==
    LET description_path == join(folder, data.description)
        details_path == join(folder, data.evaluation_details)
        terms_path == join(folder, data.terms_and_conditions)
        guidelines_path == join(folder, data.submission_guidelines)
    IN [data EXCEPT
          !.description =
              IF is_html_file(namelist, description_path)
              THEN get_file_content(description_path) ELSE @,
          !.evaluation_details =
              IF is_html_file(namelist, details_path)
              THEN get_file_content(details_path) ELSE None,
          !.terms_and_conditions =
              IF is_html_file(namelist, terms_path)
              THEN get_file_content(terms_path) ELSE None,
          !.submission_guidelines =
              IF is_html_file(namelist, guidelines_path)
              THEN get_file_content(guidelines_path) ELSE None]

\* load_image without the isfile test
load_image_unchecked(namelist, folder, image) ==
    IF truthy(image) /\ is_image_name(image)
    THEN ContentFile(get_file_content(join(folder, image)), image)
    ELSE NoObject

\* challenge_image_file after lines 229-245
load_image(namelist, folder, image) ==
    IF truthy(image) /\ is_image_name(image)
    THEN IF isfile(namelist, join(folder, image))
         THEN ContentFile(get_file_content(join(folder, image)), image)
         ELSE NoObject
    ELSE NoObject

\* test_annotation_file_path after the loop of lines 221-227
RECURSIVE annotation_path_after(_, _, _)
annotation_path_after(folder, phases, path) ==
    IF phases = <<>> THEN path
    ELSE annotation_path_after(folder, Tail(phases),
                               join(folder, Head(phases).test_annotation_file))

EmptyDict == [k \in {} |-> 0]

\* dict[key] = the position of the entry in the dict
dict_set_position(dict, key, value) ==
    (key :> Cardinality(DOMAIN dict) + 1) @@ dict

\* dict[key] = value
dict_set(dict, key, value) == (key :> value) @@ dict

Stages == <<"leaderboard", "phase", "split", "phase_split", "host_team">>

\* whether the stage has anything to do for this manifest
stage_has_work(k, data) ==
    CASE k = 1 -> data.leaderboard # <<>>
      [] k = 2 -> data.challenge_phases # <<>>
      [] k = 3 -> data.dataset_splits # <<>>
      [] k = 4 -> data.challenge_phase_splits # <<>>
      [] k = 5 -> ~data.is_docker_based
      [] OTHER -> TRUE

\* the first stage after stage k that has work; 6 is the return statement
next_stage(k, data) ==
    CHOOSE j \in (k + 1)..6 :
        /\ stage_has_work(j, data)
        /\ \A i \in (k + 1)..(j - 1) : ~stage_has_work(i, data)

\* Control leaves stage k (0: the challenge has been saved): the loops that
\* have nothing to iterate are passed, and the dict each one fills is
\* created on the way.  lb, ph, ds are the dicts as the leaving step has them
\* (a dict that does not exist yet is written as the empty one).
leave_stage(k, data, lb, ph, ds) ==
    LET j == next_stage(k, data)
    IN /\ pc' = IF j = 6 THEN "returned" ELSE Stages[j]
       /\ idx' = 1
       /\ leaderboard_ids' = IF k < 1 THEN EmptyDict ELSE lb
       /\ challenge_phase_ids' = IF k < 2 /\ 2 <= j THEN EmptyDict ELSE ph
       /\ dataset_split_ids' = IF k < 3 /\ 3 <= j THEN EmptyDict ELSE ds

\* the error is recorded and the call goes on
raise_and_go_on(exception) ==
    /\ pc' = pc
    /\ raised' = exception

\* the exception propagates out of load_from_zip
raise(exception) ==
    /\ pc' = "raised"
    /\ raised' = exception

Created(kind, pk) == [kind |-> kind, pk |-> pk]

\* Lines 187-300: everything before the first serializer.
LoadFromZip(zip) ==
    /\ pc \in {"idle", "returned", "raised"}
    /\ calls < MaxCalls
    /\ calls' = calls + 1
    /\ created' = <<>>
    /\ zip_ref' = zip
    /\ challenge_pk' = NoPk
    /\ leaderboard_ids' = EmptyDict
    /\ challenge_phase_ids' = EmptyDict
    /\ dataset_split_ids' = EmptyDict
    /\ challenge_test_annotation_file' = UnboundLocal
    /\ idx' = 0
    /\ UNCHANGED <<outervars, gatevars, dbvars, phase_saved>>
    /\ LET namelist == zip.namelist
           y == yaml_index(namelist)
           yaml_file == namelist[y]
           folder == split_first(yaml_file, basename(yaml_file))
           data == zip.manifest
           evaluation_script_path == join(folder, data.evaluation_script)
           phases == data.challenge_phases
       IN IF y = 0
          THEN /\ raise("No yaml file found in zip root!")
               /\ yaml_file_data' = NoObject
               /\ extracted_folder_name' = Unbound
               /\ challenge_evaluation_script_file' = UnboundLocal
               /\ test_annotation_file_path' = Unbound
               /\ challenge_image_file' = UnboundLocal
          ELSE
          /\ extracted_folder_name' = folder
          /\ IF ~isfile(namelist, evaluation_script_path)
             THEN /\ raise("FileNotFoundError")
                  /\ yaml_file_data' = data
                  /\ challenge_evaluation_script_file' = UnboundLocal
                  /\ test_annotation_file_path' = Unbound
                  /\ challenge_image_file' = UnboundLocal
             ELSE
             /\ challenge_evaluation_script_file' =
                    ContentFile(get_file_content(evaluation_script_path),
                                evaluation_script_path)
             /\ IF \E i \in 1..Len(phases) : phases[i].test_annotation_file = None
                THEN \* join() of None
                     /\ raise("TypeError")
                     /\ yaml_file_data' = data
                     /\ test_annotation_file_path' = Unbound
                     /\ challenge_image_file' = UnboundLocal
                ELSE
                /\ test_annotation_file_path' =
                       annotation_path_after(folder, phases, Unbound)
                /\ challenge_image_file' = load_image(namelist, folder, data.image)
                /\ yaml_file_data' = resolve_html_fields(namelist, folder, data)
                /\ pc' = "challenge"
                /\ raised' = None

\* The host team every call of the model is made for.
challenge_host_team ==
    [team_name |-> "g2net_hack", created_by |-> "g2net_hack",
     emails |-> <<"hack@g2net.eu">>]

\* random.randint(1, 100000): the two ends of the range
RandomInts == {1, 100000}

\* the rows of a table that hold value in field (a unique constraint's probe)
slug_taken(table, slug) == \E pk \in 1..Len(table) : table[pk].slug = slug

\* Lines 302-313 and 317-318: ZipChallengeSerializer, is_valid() and save().
\* The insert runs the pre_save receiver with instance.pk still None.
SaveChallenge ==
    /\ pc = "challenge"
    /\ UNCHANGED <<outervars, gatevars, phase_saved, calls>>
    /\ UNCHANGED <<leaderboard, challenge_phase, dataset_split,
                   challenge_phase_split, participant_team, participant>>
    /\ UNCHANGED <<zip_ref, yaml_file_data, extracted_folder_name,
                   challenge_image_file, challenge_evaluation_script_file,
                   test_annotation_file_path, challenge_test_annotation_file,
                   leaderboard_ids, challenge_phase_ids, dataset_split_ids, idx>>
    /\ \E is_valid \in BOOLEAN :
         LET data == yaml_file_data
             instance == save_challenge_slug(
                 [title |-> data.title,
                  description |-> data.description,
                  evaluation_details |-> data.evaluation_details,
                  terms_and_conditions |-> data.terms_and_conditions,
                  submission_guidelines |-> data.submission_guidelines,
                  image |-> challenge_image_file,
                  evaluation_script |-> challenge_evaluation_script_file,
                  creator |-> challenge_host_team.team_name,
                  is_docker_based |-> data.is_docker_based,
                  approved_by_admin |-> FALSE,
                  queue |-> "",
                  participant_teams |-> {},
                  slug |-> None], NoPk)
         IN IF ~is_valid
            THEN /\ raise("ValidationError")
                 /\ UNCHANGED <<challenge, challenge_pk, created>>
            ELSE IF slug_taken(challenge, instance.slug)
            THEN /\ raise("IntegrityError")
                 /\ UNCHANGED <<challenge, challenge_pk, created>>
            ELSE /\ challenge' = Append(challenge, instance)
                 /\ challenge_pk' = Len(challenge) + 1
                 /\ created' = Append(created, Created("Challenge", Len(challenge) + 1))
                 /\ pc' = "queue"
                 /\ UNCHANGED raised

\* Lines 314-316 (and the dict of line 322): the queue name is set and the
\* challenge saved again; the pre_save receiver now sees the primary key.
SaveChallengeQueue ==
    /\ pc = "queue"
    /\ UNCHANGED <<outervars, gatevars, histvars>>
    /\ UNCHANGED <<leaderboard, challenge_phase, dataset_split,
                   challenge_phase_split, participant_team, participant>>
    /\ UNCHANGED <<zip_ref, yaml_file_data, extracted_folder_name,
                   challenge_image_file, challenge_evaluation_script_file,
                   test_annotation_file_path, challenge_test_annotation_file,
                   challenge_pk, raised>>
    /\ LET instance == save_challenge_slug(
               [challenge[challenge_pk] EXCEPT
                   !.queue = get_queue_name(challenge[challenge_pk].title)],
               challenge_pk)
       IN challenge' = [challenge EXCEPT ![challenge_pk] = instance]
    /\ leave_stage(0, yaml_file_data, EmptyDict, EmptyDict, EmptyDict)

\* the loop of the running stage moves to its next entry, or control leaves
\* the stage after the last one
next_entry(k, entries, lb, ph, ds) ==
    IF idx < Len(entries)
    THEN /\ idx' = idx + 1
         /\ pc' = pc
         /\ leaderboard_ids' = lb
         /\ challenge_phase_ids' = ph
         /\ dataset_split_ids' = ds
    ELSE leave_stage(k, yaml_file_data, lb, ph, ds)

\* Lines 321-329: one iteration of the leaderboard loop.
SaveLeaderboard ==
    /\ pc = "leaderboard"
    /\ UNCHANGED <<outervars, gatevars, phase_saved, calls>>
    /\ UNCHANGED <<challenge, challenge_phase, dataset_split,
                   challenge_phase_split, participant_team, participant>>
    /\ UNCHANGED <<zip_ref, yaml_file_data, extracted_folder_name,
                   challenge_image_file, challenge_evaluation_script_file,
                   test_annotation_file_path, challenge_test_annotation_file,
                   challenge_pk>>
    /\ \E is_valid \in BOOLEAN :
         LET data == yaml_file_data.leaderboard[idx]
             pk == Len(leaderboard) + 1
         IN IF ~is_valid
            THEN /\ raise("ValidationError")
                 /\ UNCHANGED <<leaderboard, created, idx, leaderboard_ids,
                                challenge_phase_ids, dataset_split_ids>>
            ELSE /\ leaderboard' = Append(leaderboard, [schema |-> data.schema])
                 /\ created' = Append(created, Created("Leaderboard", pk))
                 /\ next_entry(1, yaml_file_data.leaderboard,
                               dict_set(leaderboard_ids, str(data.id), pk),
                               challenge_phase_ids, dataset_split_ids)
                 /\ UNCHANGED raised

\* Line 354: the phase slug is cut to this many characters.
PhaseSlugLength == 198

\* data["slug"] without the [:198] cut
phase_slug_uncut(title, codename, pk) ==
    lower(split_first(title, " ")) \o "-"
        \o lower(replace(codename, " ", "-")) \o "-"
        \o format_pk(pk)

\* Lines 350-354: data["slug"]
phase_slug(title, codename, pk) ==
    Truncate(lower(split_first(title, " ")) \o "-"
                 \o lower(replace(codename, " ", "-")) \o "-"
                 \o format_pk(pk),
             PhaseSlugLength)

\* Lines 355-360: test_annotation_file_path as the iteration leaves it
phase_annotation_path(folder, data, path) ==
    IF truthy(data.test_annotation_file)
    THEN join(folder, data.test_annotation_file)
    ELSE path

\* Lines 361-368: challenge_test_annotation_file as the iteration leaves it
phase_annotation_file(namelist, path, file) ==
    IF isfile(namelist, path)
    THEN ContentFile(get_file_content(path), path)
    ELSE file

\* unique_together = (("codename", "challenge"),) and slug unique=True
phase_conflict(instance) ==
    \E pk \in 1..Len(challenge_phase) :
        \/ challenge_phase[pk].slug = instance.slug
        \/ /\ challenge_phase[pk].codename = instance.codename
           /\ challenge_phase[pk].challenge = instance.challenge

\* Lines 333-383: one iteration of the challenge-phase loop.
SaveChallengePhase ==
    /\ pc = "phase"
    /\ UNCHANGED <<outervars, gatevars, calls>>
    /\ UNCHANGED <<challenge, leaderboard, dataset_split,
                   challenge_phase_split, participant_team, participant>>
    /\ UNCHANGED <<zip_ref, extracted_folder_name, challenge_image_file,
                   challenge_evaluation_script_file, challenge_pk>>
    /\ \E is_valid \in BOOLEAN :
         LET namelist == zip_ref.namelist
             folder == extracted_folder_name
             entry == yaml_file_data.challenge_phases[idx]
             description_path == join(folder, entry.description)
             data == [id |-> entry.id,
                      codename |-> entry.codename,
                      description |->
                          IF is_html_file(namelist, description_path)
                          THEN get_file_content(description_path) ELSE None,
                      test_annotation_file |-> entry.test_annotation_file,
                      max_submissions_per_day |-> entry.max_submissions_per_day,
                      max_concurrent_submissions_allowed |->
                          entry.max_concurrent_submissions_allowed,
                      slug |-> phase_slug(challenge[challenge_pk].title,
                                          entry.codename, challenge_pk)]
             path == phase_annotation_path(folder, entry, test_annotation_file_path)
             file == phase_annotation_file(namelist, path,
                                           challenge_test_annotation_file)
             instance == [challenge |-> challenge_pk,
                          codename |-> data.codename,
                          description |-> data.description,
                          slug |-> data.slug,
                          test_annotation |-> file,
                          max_submissions_per_day |-> data.max_submissions_per_day,
                          max_concurrent_submissions_allowed |->
                              data.max_concurrent_submissions_allowed]
             pk == Len(challenge_phase) + 1
         IN /\ yaml_file_data' = [yaml_file_data EXCEPT !.challenge_phases[idx] = data]
            /\ test_annotation_file_path' = path
            /\ challenge_test_annotation_file' = file
            /\ IF file = UnboundLocal
               THEN /\ raise("UnboundLocalError")
                    /\ UNCHANGED <<challenge_phase, created, phase_saved, idx,
                                   leaderboard_ids, challenge_phase_ids,
                                   dataset_split_ids>>
               ELSE IF ~is_valid
               THEN /\ raise("ValidationError")
                    /\ UNCHANGED <<challenge_phase, created, phase_saved, idx,
                                   leaderboard_ids, challenge_phase_ids,
                                   dataset_split_ids>>
               ELSE IF phase_conflict(ChallengePhase_save(instance))
               THEN /\ raise("IntegrityError")
                    /\ UNCHANGED <<challenge_phase, created, phase_saved, idx,
                                   leaderboard_ids, challenge_phase_ids,
                                   dataset_split_ids>>
               ELSE /\ challenge_phase' =
                           Append(challenge_phase, ChallengePhase_save(instance))
                    /\ phase_saved' = [pk |-> pk, instance |-> instance]
                    /\ created' = Append(created, Created("ChallengePhase", pk))
                    /\ next_entry(2, yaml_file_data.challenge_phases,
                                  leaderboard_ids,
                                  dict_set(challenge_phase_ids, str(data.id), pk),
                                  dataset_split_ids)
                    /\ UNCHANGED raised

\* DatasetSplitSerializer.is_valid() for entry i of the dataset_splits list:
\* a name an earlier entry of the list has is a validation error; accepted
\* stands for the outcome of the field validation.
DatasetSplitSerializer_is_valid(entries, i, accepted) ==
    /\ accepted
    /\ \A j \in 1..(i - 1) : entries[j].name # entries[i].name

\* the entry that is not valid is skipped
dataset_split_invalid_skipped ==
    /\ UNCHANGED <<dataset_split, created, raised>>
    /\ next_entry(3, yaml_file_data.dataset_splits, leaderboard_ids,
                  challenge_phase_ids, dataset_split_ids)

\* What the dataset-split loop does with an entry that is not valid.
dataset_split_invalid ==
    /\ raise("ValidationError")
    /\ UNCHANGED <<dataset_split, created, idx, leaderboard_ids,
                   challenge_phase_ids, dataset_split_ids>>

\* Lines 386-395: one iteration of the dataset-split loop.
SaveDatasetSplit ==
    /\ pc = "split"
    /\ UNCHANGED <<outervars, gatevars, phase_saved, calls>>
    /\ UNCHANGED <<challenge, leaderboard, challenge_phase,
                   challenge_phase_split, participant_team, participant>>
    /\ UNCHANGED <<zip_ref, yaml_file_data, extracted_folder_name,
                   challenge_image_file, challenge_evaluation_script_file,
                   test_annotation_file_path, challenge_test_annotation_file,
                   challenge_pk>>
    /\ \E accepted \in BOOLEAN :
         LET entries == yaml_file_data.dataset_splits
             data == entries[idx]
             pk == Len(dataset_split) + 1
         IN IF ~DatasetSplitSerializer_is_valid(entries, idx, accepted)
            THEN dataset_split_invalid
            ELSE /\ dataset_split' =
                        Append(dataset_split,
                               [name |-> data.name, codename |-> data.codename])
                 /\ created' = Append(created, Created("DatasetSplit", pk))
                 /\ next_entry(3, entries, leaderboard_ids, challenge_phase_ids,
                               dict_set(dataset_split_ids, str(data.id), pk))
                 /\ UNCHANGED raised

\* ChallengePhaseSplit.VISIBILITY_OPTIONS
HOST == 1
OWNER_AND_HOST == 2
PUBLIC == 3

\* the manifest-local ids are stored as they are
resolve_phase_split_untranslated(data, ph, lb, ds) ==
    [challenge_phase |-> data.challenge_phase_id,
     leaderboard |-> data.leaderboard_id,
     dataset_split |-> data.dataset_split_id,
     visibility |-> data.visibility]

\* Lines 403-417: the phase-split entry with its three manifest-local ids
\* replaced by the primary keys the dicts hold for them.
resolve_phase_split(data, ph, lb, ds) ==
    [challenge_phase |-> ph[str(data.challenge_phase_id)],
     leaderboard |-> lb[str(data.leaderboard_id)],
     dataset_split |-> ds[str(data.dataset_split_id)],
     visibility |-> data.visibility]

\* Lines 398-423: one iteration of the phase-split loop.
SaveChallengePhaseSplit ==
    /\ pc = "phase_split"
    /\ UNCHANGED <<outervars, gatevars, phase_saved, calls>>
    /\ UNCHANGED <<challenge, leaderboard, challenge_phase, dataset_split,
                   participant_team, participant>>
    /\ UNCHANGED <<zip_ref, yaml_file_data, extracted_folder_name,
                   challenge_image_file, challenge_evaluation_script_file,
                   test_annotation_file_path, challenge_test_annotation_file,
                   challenge_pk>>
    /\ \E is_valid \in BOOLEAN :
         LET entries == yaml_file_data.challenge_phase_splits
             data == entries[idx]
             pk == Len(challenge_phase_split) + 1
         IN IF \/ str(data.challenge_phase_id) \notin DOMAIN challenge_phase_ids
               \/ str(data.leaderboard_id) \notin DOMAIN leaderboard_ids
               \/ str(data.dataset_split_id) \notin DOMAIN dataset_split_ids
            THEN /\ raise("KeyError")
                 /\ UNCHANGED <<challenge_phase_split, created, idx, leaderboard_ids,
                                challenge_phase_ids, dataset_split_ids>>
            ELSE IF ~is_valid
            THEN /\ raise("ValidationError")
                 /\ UNCHANGED <<challenge_phase_split, created, idx, leaderboard_ids,
                                challenge_phase_ids, dataset_split_ids>>
            ELSE /\ challenge_phase_split' =
                        Append(challenge_phase_split,
                               resolve_phase_split(data, challenge_phase_ids,
                                                   leaderboard_ids, dataset_split_ids))
                 /\ created' = Append(created, Created("ChallengePhaseSplit", pk))
                 /\ next_entry(4, entries, leaderboard_ids, challenge_phase_ids,
                               dataset_split_ids)
                 /\ UNCHANGED raised

\* Lines 425-445: the host team is enrolled as a test participant.  found
\* is the number of host emails, in order, that User.objects.get resolves;
\* the first one it does not resolve raises DoesNotExist.
AddHostParticipantTeam ==
    /\ pc = "host_team"
    /\ UNCHANGED <<outervars, gatevars, phase_saved, calls>>
    /\ UNCHANGED <<leaderboard, challenge_phase, dataset_split, challenge_phase_split>>
    /\ UNCHANGED <<zip_ref, yaml_file_data, extracted_folder_name,
                   challenge_image_file, challenge_evaluation_script_file,
                   test_annotation_file_path, challenge_test_annotation_file,
                   challenge_pk, leaderboard_ids, challenge_phase_ids,
                   dataset_split_ids, idx>>
    /\ \E n \in RandomInts, found \in 0..Len(challenge_host_team.emails) :
         LET emails == challenge_host_team.emails
             team == Len(participant_team) + 1
             hosts == [i \in 1..found |->
                          [user |-> emails[i], status |-> "accepted", team |-> team]]
         IN /\ participant_team' =
                   Append(participant_team,
                          [team_name |-> "Host_" \o str(n) \o "_Team",
                           created_by |-> challenge_host_team.created_by])
            /\ participant' = participant \o hosts
            /\ created' = Append(created, Created("ParticipantTeam", team))
            /\ IF found < Len(emails)
               THEN /\ raise("DoesNotExist")
                    /\ UNCHANGED challenge
               ELSE /\ challenge' = [challenge EXCEPT
                           ![challenge_pk].participant_teams = @ \cup {team}]
                    /\ pc' = "returned"
                    /\ UNCHANGED raised

\* A host edits the caps of a stored phase and saves it.
UpdateChallengePhase(pk, per_day, concurrent) ==
    /\ pc \in {"idle", "returned", "raised"}
    /\ pk \in 1..Len(challenge_phase)
    /\ LET instance == [challenge_phase[pk] EXCEPT
                           !.max_submissions_per_day = per_day,
                           !.max_concurrent_submissions_allowed = concurrent]
       IN /\ challenge_phase' =
                 [challenge_phase EXCEPT ![pk] = ChallengePhase_save(instance)]
          /\ phase_saved' = [pk |-> pk, instance |-> instance]
    /\ UNCHANGED <<outervars, gatevars, localvars, created, calls>>
    /\ UNCHANGED <<challenge, leaderboard, dataset_split, challenge_phase_split,
                   participant_team, participant>>

(***************************************************************************)
(* The archives the calls of the model are made with.                      *)
(***************************************************************************)
Leaderboard(id) == [id |-> id, schema |-> "accuracy"]

Phase(id, codename, annotation, per_day, concurrent) ==
    [id |-> id, codename |-> codename, description |-> "phase.html",
     test_annotation_file |-> annotation,
     max_submissions_per_day |-> per_day,
     max_concurrent_submissions_allowed |-> concurrent]

Split(id, name) == [id |-> id, name |-> name, codename |-> name]

PhaseSplit(phase, board, split, visibility) ==
    [challenge_phase_id |-> phase, leaderboard_id |-> board,
     dataset_split_id |-> split, visibility |-> visibility]

Manifest(title, docker, boards, phases, splits, phase_splits) ==
    [title |-> title,
     is_docker_based |-> docker,
     evaluation_script |-> "eval.zip",
     image |-> "logo.png",
     description |-> "desc.html",
     evaluation_details |-> "details.html",
     terms_and_conditions |-> "terms.html",
     submission_guidelines |-> "guide.html",
     leaderboard |-> boards,
     challenge_phases |-> phases,
     dataset_splits |-> splits,
     challenge_phase_splits |-> phase_splits]

HtmlFiles == <<"desc.html", "details.html", "terms.html", "guide.html", "phase.html">>
AuxiliaryFiles == <<"eval.zip", "logo.png">> \o HtmlFiles \o <<"a.json", "b.json">>

without(names, dropped) == SelectSeq(names, LAMBDA name : name \notin dropped)
below(folder, names) == [i \in DOMAIN names |-> folder \o names[i]]

\* a bundle zipped at the archive root, on a Mac
RootNamelist(dropped) ==
    <<"__MACOSX/._challenge_config.yaml", "challenge_config.yaml">>
        \o without(AuxiliaryFiles, dropped)

\* a bundle zipped as a folder
FolderNamelist ==
    <<"cfg/", "cfg/challenge_config.yml">> \o below("cfg/", AuxiliaryFiles)

Archive(namelist, manifest) == [namelist |-> namelist, manifest |-> manifest]

OnePhase == <<Phase(1, "dev", "a.json", 100000, 3)>>
TwoPhases == <<Phase(1, "dev", "a.json", 100000, 3),
               Phase(2, "Test Std", "b.json", 2, 3)>>

\* one phase, one split, one leaderboard, one public phase split
SmallManifest(title) ==
    Manifest(title, FALSE, <<Leaderboard(1)>>, OnePhase, <<Split(1, "train")>>,
             <<PhaseSplit(1, 1, 1, PUBLIC)>>)

\* Manifests that differ in their lists: ids that cross, ids given twice,
\* an id nothing was recorded for, a split name given twice.
ManifestArchives ==
    {Archive(RootNamelist({}), manifest) : manifest \in
        {SmallManifest("Forest Clfy"),
         Manifest("Forest Clfy", TRUE,
                  <<Leaderboard(1), Leaderboard(2)>>, TwoPhases,
                  <<Split(1, "train"), Split(2, "test")>>,
                  <<PhaseSplit(2, 1, 2, HOST), PhaseSplit(1, 2, 1, OWNER_AND_HOST)>>),
         Manifest("G2Net hack", FALSE,
                  <<Leaderboard(1), Leaderboard(1)>>, TwoPhases,
                  <<Split(2, "train"), Split(2, "test")>>,
                  <<PhaseSplit(2, 1, 2, PUBLIC), PhaseSplit(1, 1, 2, HOST)>>),
         Manifest("G2Net hack", TRUE,
                  <<Leaderboard(1)>>, OnePhase, <<Split(1, "train")>>,
                  <<PhaseSplit(1, 1, 1, PUBLIC), PhaseSplit(1, 2, 1, PUBLIC)>>),
         Manifest("Forest Clfy", FALSE,
                  <<Leaderboard(1)>>, OnePhase,
                  <<Split(1, "train"), Split(2, "train")>>,
                  <<PhaseSplit(1, 1, 2, PUBLIC)>>)}}

FilesManifest ==
    Manifest("Forest Clfy", FALSE, <<Leaderboard(1)>>, TwoPhases,
             <<Split(1, "train")>>,
             <<PhaseSplit(1, 1, 1, PUBLIC), PhaseSplit(2, 1, 1, HOST)>>)

\* One manifest in archives that differ in the files they hold.
FileArchives ==
    {Archive(namelist, FilesManifest) : namelist \in
        {<<"readme.txt", "challenge_config.YAML">> \o AuxiliaryFiles,
         <<"__MACOSX/._challenge_config.yaml", "__MACOSX/challenge_config.yml">>
             \o AuxiliaryFiles,
         RootNamelist({}),
         FolderNamelist,
         RootNamelist({"eval.zip"}),
         RootNamelist({"logo.png", "desc.html", "details.html", "terms.html",
                       "guide.html", "phase.html"}),
         RootNamelist({"a.json"}),
         RootNamelist({"b.json"})}}

\* A single-phase manifest whose daily cap is below its concurrent cap, for
\* the model of ChallengePhase.save.
PhaseArchives ==
    {Archive(RootNamelist({}),
             Manifest("G2Net hack", FALSE, <<Leaderboard(1)>>,
                      <<Phase(1, "dev", "a.json", 2, 3)>>, <<Split(1, "train")>>,
                      <<PhaseSplit(1, 1, 1, HOST)>>))}

\* the caps a host may set
Caps == {0, 3}

InitTables ==
    /\ challenge = <<>>
    /\ leaderboard = <<>>
    /\ challenge_phase = <<>>
    /\ dataset_split = <<>>
    /\ challenge_phase_split = <<>>
    /\ participant_team = <<>>
    /\ participant = <<>>

InitLocals ==
    /\ pc = "idle"
    /\ zip_ref = NoObject
    /\ yaml_file_data = NoObject
    /\ extracted_folder_name = Unbound
    /\ challenge_image_file = UnboundLocal
    /\ challenge_evaluation_script_file = UnboundLocal
    /\ test_annotation_file_path = Unbound
    /\ challenge_test_annotation_file = UnboundLocal
    /\ challenge_pk = NoPk
    /\ leaderboard_ids = EmptyDict
    /\ challenge_phase_ids = EmptyDict
    /\ dataset_split_ids = EmptyDict
    /\ idx = 0
    /\ raised = None

InitHistory ==
    /\ created = <<>>
    /\ phase_saved = NoObject
    /\ calls = 0

InitOuter ==
    /\ auth_user = <<>>
    /\ host_team = <<>>
    /\ challenge_host = <<>>
    /\ run_pc = "idle"
    /\ savepoint = NoObject
    /\ run_start = NoObject
    /\ evaluation = NoObject

InitGate ==
    /\ ACCOUNT_EMAIL_REQUIRED \in BOOLEAN
    /\ email_address = {}
    /\ permission = NoObject
    /\ InitTables /\ InitLocals /\ InitHistory /\ InitOuter

NextGate ==
    \/ \E user \in Users \cup {AnonymousUser} : HasPermission(user)
    \/ \E user \in Users, email \in Addresses, verified \in BOOLEAN :
           CreateEmailAddress(user, email, verified)
    \/ \E email \in Addresses : VerifyEmailAddress(email)
    \/ \E email \in Addresses : DeleteEmailAddress(email)

SpecGate == InitGate /\ [][NextGate]_vars

Init ==
    /\ ACCOUNT_EMAIL_REQUIRED = TRUE
    /\ email_address = {}
    /\ permission = NoObject
    /\ InitTables /\ InitLocals /\ InitHistory /\ InitOuter

ImportSteps ==
    \/ SaveChallenge
    \/ SaveChallengeQueue
    \/ SaveLeaderboard
    \/ SaveChallengePhase
    \/ SaveDatasetSplit
    \/ SaveChallengePhaseSplit
    \/ AddHostParticipantTeam

Next ==
    \/ \E zip \in ManifestArchives : LoadFromZip(zip)
    \/ ImportSteps

Spec == Init /\ [][Next]_vars

NextFiles ==
    \/ \E zip \in FileArchives : LoadFromZip(zip)
    \/ ImportSteps

SpecFiles == Init /\ [][NextFiles]_vars

NextPhase ==
    \/ \E zip \in PhaseArchives : LoadFromZip(zip)
    \/ ImportSteps
    \/ \E pk \in 1..Len(challenge_phase), per_day \in Caps, concurrent \in Caps :
           UpdateChallengePhase(pk, per_day, concurrent)

SpecPhase == Init /\ [][NextPhase]_vars

(***************************************************************************)
(* Manifests for the phase slug: codenames that differ in case, in space   *)
(* against hyphen, or past the cut, and titles and codenames of the        *)
(* greatest length their fields take.                                      *)
(***************************************************************************)
TitleMaxLength == 100
CodenameMaxLength == 100

RECURSIVE repeat(_, _)
repeat(s, n) ==
    IF n = 0 THEN ""
    ELSE IF n = 1 THEN s
    ELSE repeat(s, n \div 2) \o repeat(s, n - n \div 2)

\* a word of n characters that ends with tail
Padded(n, tail) == repeat("x", n - Len(tail)) \o tail

SlugManifest(title, first, second) ==
    Manifest(title, FALSE, <<Leaderboard(1)>>,
             <<Phase(1, first, "a.json", 100000, 3),
               Phase(2, second, "b.json", 100000, 3)>>,
             <<Split(1, "train")>>,
             <<PhaseSplit(1, 1, 1, PUBLIC), PhaseSplit(2, 1, 1, PUBLIC)>>)

SlugArchives ==
    {Archive(RootNamelist({}), manifest) : manifest \in
        {SlugManifest("G2Net hack", "dev", "Test Std"),
         SlugManifest("Forest Clfy", "Test Std", "test-std"),
         SlugManifest(Padded(TitleMaxLength, "Forest"),
                      Padded(CodenameMaxLength, "dev"),
                      Padded(CodenameMaxLength, "std"))}}

NextSlug ==
    \/ \E zip \in SlugArchives : LoadFromZip(zip)
    \/ ImportSteps

SpecSlug == Init /\ [][NextSlug]_vars

(***************************************************************************)
(* scripts/pymalta_challenge.py.  The tables are taken as one record, so   *)
(* that transaction.atomic() can keep them and put them back.              *)
(***************************************************************************)
HostEmail == "hack@g2net.eu"

HostUser ==
    [email |-> HostEmail, username |-> "g2net_hack", is_staff |-> TRUE,
     is_superuser |-> TRUE]

Tables ==
    [challenge |-> challenge,
     leaderboard |-> leaderboard,
     challenge_phase |-> challenge_phase,
     dataset_split |-> dataset_split,
     challenge_phase_split |-> challenge_phase_split,
     participant_team |-> participant_team,
     participant |-> participant,
     email_address |-> email_address,
     auth_user |-> auth_user,
     host_team |-> host_team,
     challenge_host |-> challenge_host]

\* the tables become t
Restore(t) ==
    /\ challenge' = t.challenge
    /\ leaderboard' = t.leaderboard
    /\ challenge_phase' = t.challenge_phase
    /\ dataset_split' = t.dataset_split
    /\ challenge_phase_split' = t.challenge_phase_split
    /\ participant_team' = t.participant_team
    /\ participant' = t.participant
    /\ email_address' = t.email_address
    /\ auth_user' = t.auth_user
    /\ host_team' = t.host_team
    /\ challenge_host' = t.challenge_host

\* an exception leaves a block that keeps what was written
rollback_nothing(tables, saved) == tables

\* an exception leaves the atomic block: the tables as the block found them
rollback(tables, saved) == saved

\* Line 50, an exception propagating out of add_challenge
Abort ==
    /\ Restore(rollback(Tables, savepoint))
    /\ savepoint' = NoObject
    /\ run_pc' = "failed"

\* Lines 48-50: run() enters the atomic block; load_from_zip has not been
\* called in this run.
Run ==
    /\ run_pc \in {"idle", "done", "failed"}
    /\ pc \in {"idle", "returned", "raised"}
    /\ calls < MaxCalls
    /\ run_pc' = "get_team_and_host"
    /\ savepoint' = Tables
    /\ run_start' = Tables
    /\ pc' = "idle"
    /\ UNCHANGED <<zip_ref, yaml_file_data, extracted_folder_name,
                   challenge_image_file, challenge_evaluation_script_file,
                   test_annotation_file_path, challenge_test_annotation_file,
                   challenge_pk, leaderboard_ids, challenge_phase_ids,
                   dataset_split_ids, idx, raised>>
    /\ UNCHANGED <<gatevars, dbvars, histvars, auth_user, host_team, challenge_host,
                   evaluation>>

\* User.objects.filter(email=email)
users_with(email) == {i \in 1..Len(auth_user) : auth_user[i].email = email}

\* ChallengeHostTeam.objects.filter(created_by=host_user)
teams_of(username) == {i \in 1..Len(host_team) : host_team[i].created_by = username}

\* Lines 13-34: get_team_and_host.  get() raises DoesNotExist without a
\* row and MultipleObjectsReturned with more than one.
GetTeamAndHost ==
    /\ run_pc = "get_team_and_host"
    /\ UNCHANGED <<ACCOUNT_EMAIL_REQUIRED, permission, localvars, histvars,
                   run_start, evaluation>>
    /\ IF users_with(HostEmail) # {}
       THEN IF /\ Cardinality(users_with(HostEmail)) = 1
               /\ \A i \in users_with(HostEmail) :
                      Cardinality(teams_of(auth_user[i].username)) = 1
            THEN /\ run_pc' = "challenge_host"
                 /\ UNCHANGED <<dbvars, email_address, auth_user, host_team,
                                challenge_host, savepoint>>
            ELSE Abort
       ELSE /\ Restore([Tables EXCEPT
                   !.auth_user = Append(@, HostUser),
                   !.email_address = @ \cup
                       {[user |-> HostUser.username, email |-> HostEmail,
                         verified |-> TRUE, primary |-> TRUE]},
                   !.host_team = Append(@, [team_name |-> "g2net_hack",
                                           created_by |-> HostUser.username])])
            /\ run_pc' = "challenge_host"
            /\ UNCHANGED savepoint

\* Lines 39-42: the ChallengeHost row, then the bundle is opened; in_place
\* says whether g2net_challenge/challenge_config.zip is there.
CreateChallengeHost ==
    /\ run_pc = "challenge_host"
    /\ UNCHANGED <<ACCOUNT_EMAIL_REQUIRED, permission, localvars, histvars,
                   run_start, evaluation>>
    /\ \E in_place \in BOOLEAN :
         LET host_user == auth_user[CHOOSE i \in users_with(HostEmail) : TRUE]
             team == CHOOSE i \in teams_of(host_user.username) : TRUE
         IN IF in_place
            THEN /\ Restore([Tables EXCEPT
                        !.challenge_host = Append(@,
                            [user |-> host_user.username, team_name |-> team,
                             status |-> "SELF", permissions |-> "ADMIN"])])
                 /\ run_pc' = "load_from_zip"
                 /\ UNCHANGED savepoint
            ELSE Abort

\* Lines 44-45: load_from_zip returned; the challenge is approved and
\* saved, and the atomic block is left.
ApproveChallenge ==
    /\ run_pc = "load_from_zip"
    /\ pc = "returned"
    /\ UNCHANGED <<gatevars, localvars, histvars, run_start, evaluation>>
    /\ UNCHANGED <<leaderboard, challenge_phase, dataset_split, challenge_phase_split,
                   participant_team, participant, auth_user, host_team,
                   challenge_host>>
    /\ challenge' = [challenge EXCEPT ![challenge_pk] =
           save_challenge_slug([@ EXCEPT !.approved_by_admin = TRUE], challenge_pk)]
    /\ savepoint' = NoObject
    /\ run_pc' = "done"

\* Line 43 raised: the exception of load_from_zip leaves the atomic block.
AbortOnRaise ==
    /\ run_pc = "load_from_zip"
    /\ pc = "raised"
    /\ UNCHANGED <<ACCOUNT_EMAIL_REQUIRED, permission, localvars, histvars,
                   run_start, evaluation>>
    /\ Abort

\* the bundle the script loads
ScriptArchives == {Archive(RootNamelist({}), SmallManifest("G2Net hack"))}

\* the host may have an account, and a team, before the script first runs
InitRun ==
    /\ ACCOUNT_EMAIL_REQUIRED = TRUE
    /\ email_address = {}
    /\ permission = NoObject
    /\ InitTables /\ InitLocals /\ InitHistory
    /\ auth_user \in {<<>>, <<HostUser>>}
    /\ host_team \in {<<>>, <<[team_name |-> "g2net_hack",
                               created_by |-> HostUser.username]>>}
    /\ host_team # <<>> => auth_user # <<>>
    /\ challenge_host = <<>>
    /\ run_pc = "idle"
    /\ savepoint = NoObject
    /\ run_start = NoObject
    /\ evaluation = NoObject

NextRun ==
    \/ Run
    \/ GetTeamAndHost
    \/ CreateChallengeHost
    \/ (run_pc = "load_from_zip" /\ pc = "idle"
            /\ \E zip \in ScriptArchives : LoadFromZip(zip))
    \/ (run_pc = "load_from_zip" /\ ImportSteps)
    \/ ApproveChallenge
    \/ AbortOnRaise

SpecRun == InitRun /\ [][NextRun]_vars

(***************************************************************************)
(* evaluation_script/main.py: evaluate.  A csv file is the sequence of its *)
(* data rows; the scores, floats in the code, are exact ratios <<n, d>> in *)
(* lowest terms.                                                           *)
(***************************************************************************)
MaxRows == 3
Labels == {0, 1}
PhaseCodenames == {"challenge", "dev", "test"}
NaN == -1

RECURSIVE gcd(_, _)
gcd(a, b) == IF b = 0 THEN a ELSE gcd(b, a % b)

Ratio(n, d) == IF d = 0 THEN <<0, 1>> ELSE <<n \div gcd(n, d), d \div gcd(n, d)>>

ratio_add(a, b) == Ratio(a[1] * b[2] + b[1] * a[2], a[2] * b[2])

\* pd.read_csv followed by the renaming of the two columns
read_csv(file, column) ==
    [i \in 1..Len(file) |-> ("ID" :> file[i][1]) @@ (column :> file[i][2])]

RECURSIVE matches(_, _)
matches(row, df_submit) ==
    IF df_submit = <<>> THEN <<>>
    ELSE (IF Head(df_submit)["ID"] = row["ID"]
          THEN <<[ID |-> row["ID"], y_true |-> row["y_true"],
                  y_pred |-> Head(df_submit)["y_pred"]]>>
          ELSE <<>>) \o matches(row, Tail(df_submit))

\* pd.merge(how='left'): every row of the left frame, once per matching row
\* of the right frame, and once with a null when no row matches
RECURSIVE merge(_, _)
merge(df_true, df_submit) ==
    IF df_true = <<>> THEN <<>>
    ELSE (IF matches(Head(df_true), df_submit) = <<>>
          THEN <<[ID |-> Head(df_true)["ID"], y_true |-> Head(df_true)["y_true"],
                  y_pred |-> NaN]>>
          ELSE matches(Head(df_true), df_submit)) \o merge(Tail(df_true), df_submit)

isnull(df) == {i \in 1..Len(df) : df[i].y_pred = NaN}

rows_where(df, t, p) ==
    Cardinality({i \in 1..Len(df) : df[i].y_true \in t /\ df[i].y_pred \in p})

accuracy_score(df) ==
    Ratio(Cardinality({i \in 1..Len(df) : df[i].y_true = df[i].y_pred}), Len(df))

\* sklearn's average='weighted': the per-label score weighted by the number
\* of true rows of the label; a label with an empty denominator scores 0
RECURSIVE weighted(_, _, _)
weighted(df, labels, score) ==
    IF labels = {} THEN <<0, 1>>
    ELSE LET c == CHOOSE l \in labels : TRUE
             support == rows_where(df, {c}, Labels)
             s == score[c]
         IN ratio_add(Ratio(support * s[1], Len(df) * s[2]),
                      weighted(df, labels \ {c}, score))

precision_score(df) ==
    LET score == [c \in Labels |->
                     Ratio(rows_where(df, {c}, {c}), rows_where(df, Labels, {c}))]
    IN weighted(df, Labels, score)

recall_score(df) ==
    LET score == [c \in Labels |->
                     Ratio(rows_where(df, {c}, {c}), rows_where(df, {c}, Labels))]
    IN weighted(df, Labels, score)

f1_score(df) ==
    LET score == [c \in Labels |->
                     Ratio(2 * rows_where(df, {c}, {c}),
                           rows_where(df, Labels, {c}) + rows_where(df, {c}, Labels))]
    IN weighted(df, Labels, score)

train_split(df) ==
    ("Accuracy" :> accuracy_score(df)) @@ ("Precision" :> precision_score(df))
        @@ ("Recall" :> recall_score(df)) @@ ("F1-Score" :> f1_score(df))

evaluate_output(df, phase_codename) ==
    IF phase_codename = "challenge"
    THEN [result |-> <<[challenge |-> train_split(df)]>>,
          submission_result |-> train_split(df)]
    ELSE EmptyDict

\* what a call returns, or the exception it raises
evaluate(test_annotation_file, user_submission_file, phase_codename, kwargs) ==
    LET df == merge(read_csv(test_annotation_file, "y_true"),
                    read_csv(user_submission_file, "y_pred"))
    IN  IF "submission_metadata" \notin kwargs
        THEN [raised |-> "KeyError", output |-> NoObject]
        ELSE IF isnull(df) # {}
        THEN [raised |-> "ValueError", output |-> NoObject]
        ELSE [raised |-> None, output |-> evaluate_output(df, phase_codename)]

\* the annotation files: one labelled row per ID 1..n
AnnotationFiles ==
    UNION {[1..n -> {<<i, l>> : i \in 1..MaxRows, l \in Labels}] : n \in 1..MaxRows}

TestAnnotationFiles == {f \in AnnotationFiles : \A i \in 1..Len(f) : f[i][1] = i}

\* the submitted files: rows in increasing ID order, any ID possibly left out
UserSubmissionFiles ==
    {<<>>} \cup
    {f \in AnnotationFiles : \A i \in 1..Len(f) - 1 : f[i][1] < f[i + 1][1]}

\* the worker's calls: the arguments of a call that has not returned yet
Submissions ==
    [test_annotation_file : TestAnnotationFiles,
     user_submission_file : UserSubmissionFiles,
     phase_codename : PhaseCodenames,
     kwargs : {{}, {"submission_metadata"}},
     returned : {NoObject}]

Evaluate ==
    /\ evaluation.returned = NoObject
    /\ evaluation' =
         [evaluation EXCEPT !.returned =
             evaluate(evaluation.test_annotation_file, evaluation.user_submission_file,
                      evaluation.phase_codename, evaluation.kwargs)]
    /\ UNCHANGED <<gatevars, dbvars, localvars, histvars, scriptvars>>

InitEval ==
    /\ ACCOUNT_EMAIL_REQUIRED = TRUE
    /\ email_address = {}
    /\ permission = NoObject
    /\ InitTables /\ InitLocals /\ InitHistory
    /\ auth_user = <<>>
    /\ host_team = <<>>
    /\ challenge_host = <<>>
    /\ run_pc = "idle"
    /\ savepoint = NoObject
    /\ run_start = NoObject
    /\ evaluation \in Submissions

NextEval == Evaluate

SpecEval == InitEval /\ [][NextEval]_vars

(***************************************************************************)
(* Properties.                                                             *)
(***************************************************************************)
\* the rows of one kind the running call has persisted, in order
CreatedOf(kind) == SelectSeq(created, LAMBDA c : c.kind = kind)

\* a call has been made and its archive is the one in zip_ref
InCall == zip_ref # NoObject

HasVerifiedEmailOnFile(user) ==
    \E e \in email_address : e.user = user /\ e.verified

\* C1: when email verification is not required every authenticated
\* principal is permitted, whatever the number of addresses on file (zero
\* included), and an anonymous principal is permitted under either setting.
C1_PermittedWhenNotRequired ==
    permission # NoObject =>
        ((is_anonymous(permission.user) \/ ~ACCOUNT_EMAIL_REQUIRED)
            => permission.result)

\* C2: with verification required an authenticated principal is permitted
\* exactly in the states where a verified address is on file for them: the
\* answer follows every change of the email store, each call returns that
\* answer, and the call changes nothing stored.
C2_VerifiedEmailDecides ==
    /\ [](ACCOUNT_EMAIL_REQUIRED =>
            \A user \in Users : has_permission(user) <=> HasVerifiedEmailOnFile(user))
    /\ [][permission' # permission =>
            /\ (ACCOUNT_EMAIL_REQUIRED /\ ~is_anonymous(permission'.user)) =>
                   (permission'.result <=> HasVerifiedEmailOnFile(permission'.user))
            /\ UNCHANGED <<ACCOUNT_EMAIL_REQUIRED, email_address, dbvars>>]_vars

\* a principal with two addresses, one of them verified, has been permitted
C2_Witness ==
    /\ ACCOUNT_EMAIL_REQUIRED
    /\ permission # NoObject
    /\ permission.user \in Users
    /\ permission.result
    /\ \E e \in email_address : e.user = permission.user /\ e.verified
    /\ \E e \in email_address : e.user = permission.user /\ ~e.verified

\* the archive has no entry ending in .yaml or .yml outside __MACOSX/
NoManifestIn(namelist) ==
    \A i \in 1..Len(namelist) :
        (endswith(namelist[i], ".yaml") \/ endswith(namelist[i], ".yml"))
            => startswith(namelist[i], "__MACOSX/")

\* C3: a call made with an archive that has no manifest outside __MACOSX
\* fails with 'No yaml file found in zip root!' and persists no row.
C3_NoManifestFails ==
    [][(calls' # calls /\ NoManifestIn(zip_ref'.namelist)) =>
          /\ pc' = "raised"
          /\ raised' = "No yaml file found in zip root!"
          /\ created' = <<>>
          /\ UNCHANGED dbvars]_vars

\* the call failed on an archive whose only manifest lies in __MACOSX
C3_Witness ==
    /\ InCall
    /\ \E i \in 1..Len(zip_ref.namelist) :
           zip_ref.namelist[i] = "__MACOSX/challenge_config.yml"
    /\ NoManifestIn(zip_ref.namelist)
    /\ pc = "raised"
    /\ raised = "No yaml file found in zip root!"

\* C4: the row a ChallengePhase.save stores has the concurrent cap
\* min(cap before the save, daily cap) and the daily cap it was given, so
\* every stored phase has its concurrent cap at most its daily cap.
C4_ConcurrentCapClamped ==
    /\ \A pk \in 1..Len(challenge_phase) :
           challenge_phase[pk].max_concurrent_submissions_allowed
               <= challenge_phase[pk].max_submissions_per_day
    /\ phase_saved # NoObject =>
           LET before == phase_saved.instance
               row == challenge_phase[phase_saved.pk]
           IN /\ row.max_concurrent_submissions_allowed =
                     Min(before.max_concurrent_submissions_allowed,
                         before.max_submissions_per_day)
              /\ row.max_submissions_per_day = before.max_submissions_per_day
              /\ [row EXCEPT !.max_concurrent_submissions_allowed = 0] =
                     [before EXCEPT !.max_concurrent_submissions_allowed = 0]

\* a save was handed a daily cap below the concurrent cap
C4_Witness ==
    /\ phase_saved # NoObject
    /\ phase_saved.instance.max_submissions_per_day
           < phase_saved.instance.max_concurrent_submissions_allowed
    /\ challenge_phase[phase_saved.pk].max_concurrent_submissions_allowed =
           phase_saved.instance.max_submissions_per_day

\* C5: a serializer validation failure raises at once: the step persists
\* nothing and removes nothing, the call is over (the only step that can
\* follow is another call), and the rows persisted by the earlier steps of
\* the call stay in their tables.
C5_ValidationFailureStops ==
    /\ [][/\ (raised' = "ValidationError" /\ raised # "ValidationError") =>
                 (pc' = "raised" /\ UNCHANGED <<dbvars, created>>)
          /\ pc = "raised" => (calls' = calls + 1 /\ UNCHANGED dbvars)]_vars
    /\ [](\A i \in 1..Len(created) :
            created[i].pk <=
                Len(CASE created[i].kind = "Challenge" -> challenge
                      [] created[i].kind = "Leaderboard" -> leaderboard
                      [] created[i].kind = "ChallengePhase" -> challenge_phase
                      [] created[i].kind = "DatasetSplit" -> dataset_split
                      [] created[i].kind = "ChallengePhaseSplit" -> challenge_phase_split
                      [] OTHER -> participant_team))

\* the phase-split serializer refused an entry after the challenge, a
\* leaderboard, a phase and a split had been persisted
C5_Witness ==
    /\ pc = "raised"
    /\ raised = "ValidationError"
    /\ Len(CreatedOf("Challenge")) = 1
    /\ Len(CreatedOf("Leaderboard")) >= 1
    /\ Len(CreatedOf("ChallengePhase")) >= 1
    /\ Len(CreatedOf("DatasetSplit")) >= 1
    /\ Len(challenge) >= 1 /\ Len(dataset_split) >= 1

HasDuplicateSplitNames(manifest) ==
    \E i, j \in 1..Len(manifest.dataset_splits) :
        i < j /\ manifest.dataset_splits[i].name = manifest.dataset_splits[j].name

InArchive(value) == isfile(zip_ref.namelist, join(extracted_folder_name, value))

\* the manifest of the running call was found
ManifestFound == InCall /\ yaml_index(zip_ref.namelist) # 0

\* C7: a phase that names a test_annotation_file is persisted only with the
\* content of that file, which then is in the archive; it is never
\* persisted with the content loaded for another phase.
C7_PhaseHasOwnAnnotation ==
    InCall =>
        \A k \in 1..Len(CreatedOf("ChallengePhase")) :
            LET entry == zip_ref.manifest.challenge_phases[k]
                row == challenge_phase[CreatedOf("ChallengePhase")[k].pk]
                path == join(extracted_folder_name, entry.test_annotation_file)
            IN truthy(entry.test_annotation_file) =>
                   /\ InArchive(entry.test_annotation_file)
                   /\ row.test_annotation = ContentFile(get_file_content(path), path)

\* the auxiliary files the manifest references
ReferencedFiles(manifest) ==
    {manifest.evaluation_script, manifest.image, manifest.description,
     manifest.evaluation_details, manifest.terms_and_conditions,
     manifest.submission_guidelines}
        \cup {manifest.challenge_phases[i].description :
                 i \in 1..Len(manifest.challenge_phases)}

RowsFor(kind, entries, id) ==
    {CreatedOf(kind)[j].pk : j \in {i \in 1..Len(entries) : entries[i].id = id}}

\* C9: a call that returns has persisted one ChallengePhaseSplit per
\* challenge_phase_splits entry, each with the visibility of its entry and
\* with the phase, leaderboard and split rows this call persisted for the
\* manifest entries that carry the ids the entry names.
C9_PhaseSplitsResolved ==
    pc = "returned" =>
        LET manifest == zip_ref.manifest
            entries == manifest.challenge_phase_splits
            rows == CreatedOf("ChallengePhaseSplit")
        IN /\ Len(rows) = Len(entries)
           /\ Len(CreatedOf("ChallengePhase")) = Len(manifest.challenge_phases)
           /\ Len(CreatedOf("Leaderboard")) = Len(manifest.leaderboard)
           /\ Len(CreatedOf("DatasetSplit")) = Len(manifest.dataset_splits)
           /\ \A k \in 1..Len(rows) :
                  LET row == challenge_phase_split[rows[k].pk] IN
                  /\ row.visibility = entries[k].visibility
                  /\ row.challenge_phase \in
                         RowsFor("ChallengePhase", manifest.challenge_phases,
                                 entries[k].challenge_phase_id)
                  /\ row.leaderboard \in
                         RowsFor("Leaderboard", manifest.leaderboard,
                                 entries[k].leaderboard_id)
                  /\ row.dataset_split \in
                         RowsFor("DatasetSplit", manifest.dataset_splits,
                                 entries[k].dataset_split_id)

\* a second call returned with its one public phase split, whose rows have
\* primary keys that differ from the manifest-local ids
C9_Witness ==
    /\ pc = "returned"
    /\ calls = 2
    /\ Len(zip_ref.manifest.challenge_phase_splits) = 1
    /\ Len(CreatedOf("ChallengePhaseSplit")) = 1
    /\ LET row == challenge_phase_split[CreatedOf("ChallengePhaseSplit")[1].pk]
       IN /\ row.visibility = PUBLIC
          /\ row.challenge_phase # zip_ref.manifest.challenge_phase_splits[1].challenge_phase_id
          /\ row.leaderboard # zip_ref.manifest.challenge_phase_splits[1].leaderboard_id

\* C10: every stored Challenge row has the slug of its title followed by
\* "-" and its own primary key, from its first save on, so no two rows
\* share a slug.
C10_SlugIsTitleAndPk ==
    /\ \A pk \in 1..Len(challenge) :
           challenge[pk].slug = get_slug(challenge[pk].title) \o "-" \o str(pk)
    /\ \A pk1, pk2 \in 1..Len(challenge) :
           pk1 # pk2 => challenge[pk1].slug # challenge[pk2].slug

\* the ids of the rows of a csv file
file_ids(file) == {file[i][1] : i \in 1..Len(file)}

\* an evaluate call on well-formed files: the worker's metadata was passed and
\* every annotated ID has a submitted row
WellFormedEvaluation ==
    /\ evaluation # NoObject
    /\ evaluation.returned # NoObject
    /\ "submission_metadata" \in evaluation.kwargs
    /\ file_ids(evaluation.test_annotation_file)
           \subseteq file_ids(evaluation.user_submission_file)

\* C11: for every phase_codename and every pair of well-formed input files,
\* evaluate returns a document with a "result" entry and a "submission_result"
\* entry, the latter equal to the metrics of the first result grouping.
C11_ResultDocumentForEveryPhase ==
    WellFormedEvaluation =>
        /\ evaluation.returned.raised = None
        /\ {"result", "submission_result"} \subseteq DOMAIN evaluation.returned.output
        /\ Len(evaluation.returned.output["result"]) >= 1
        /\ \E split \in DOMAIN evaluation.returned.output["result"][1] :
               evaluation.returned.output["submission_result"]
                   = evaluation.returned.output["result"][1][split]

\* what the claimed normalisation stores for a manifest value
NormalizedHtml(value) ==
    IF is_html_file(zip_ref.namelist, join(extracted_folder_name, value))
    THEN get_file_content(join(extracted_folder_name, value))
    ELSE None

\* C12: description, terms_and_conditions, evaluation_details and
\* submission_guidelines of the challenge and the description of each phase
\* are persisted as the text of the .html file the manifest value names when
\* that file is in the archive, and as None otherwise; the manifest value
\* itself is never persisted.
C12_HtmlFieldsNormalized ==
    ManifestFound =>
        LET manifest == zip_ref.manifest IN
        /\ \A c \in 1..Len(CreatedOf("Challenge")) :
               LET row == challenge[CreatedOf("Challenge")[c].pk] IN
               /\ row.description = NormalizedHtml(manifest.description)
               /\ row.terms_and_conditions = NormalizedHtml(manifest.terms_and_conditions)
               /\ row.evaluation_details = NormalizedHtml(manifest.evaluation_details)
               /\ row.submission_guidelines = NormalizedHtml(manifest.submission_guidelines)
               /\ row.description # manifest.description
        /\ \A k \in 1..Len(CreatedOf("ChallengePhase")) :
               LET row == challenge_phase[CreatedOf("ChallengePhase")[k].pk] IN
               /\ row.description = NormalizedHtml(manifest.challenge_phases[k].description)
               /\ row.description # manifest.challenge_phases[k].description

\* the slug the claim describes, before the cut
SlugFormat(title, codename, pk) ==
    lower(split_first(title, " ")) \o "-" \o replace(lower(codename), " ", "-")
        \o "-" \o str(pk)

\* C13: the slug of every phase load_from_zip persists is the string
\* "{lower-cased first word of the challenge title}-{codename lower-cased,
\* spaces replaced by hyphens}-{challenge pk}" cut to its first 198 characters,
\* hence a function of (title, codename, challenge pk) of at most 198 characters.
C13_PhaseSlugFormat ==
    \A pk \in 1..Len(challenge_phase) :
        LET row == challenge_phase[pk]
            format == SlugFormat(challenge[row.challenge].title, row.codename,
                                 row.challenge)
        IN /\ Len(row.slug) <= 198
           /\ row.slug = SubSeq(format, 1, Min(198, Len(format)))

\* a phase is persisted whose slug was cut
C13_Witness ==
    \E pk \in 1..Len(challenge_phase) :
        /\ Len(SlugFormat(challenge[challenge_phase[pk].challenge].title,
                          challenge_phase[pk].codename,
                          challenge_phase[pk].challenge)) > 198
        /\ Len(challenge_phase[pk].slug) = 198

\* the phase entries of the running call whose slug has been computed
SluggedPhases ==
    {i \in 1..Len(yaml_file_data.challenge_phases) :
        "slug" \in DOMAIN yaml_file_data.challenge_phases[i]}

\* C15: phases with distinct (challenge, codename) pairs receive distinct
\* slugs, so a phase that satisfies the (codename, challenge) constraint
\* never violates the slug constraint.
C15_DistinctPhasesDistinctSlugs ==
    (InCall /\ yaml_file_data # NoObject /\ challenge_pk # NoPk) =>
        LET phases == yaml_file_data.challenge_phases IN
        /\ \A i, j \in SluggedPhases :
               phases[i].codename # phases[j].codename =>
                   phases[i].slug # phases[j].slug
        /\ \A i \in SluggedPhases, pk \in 1..Len(challenge_phase) :
               (challenge_phase[pk].challenge # challenge_pk
                    \/ challenge_phase[pk].codename # phases[i].codename) =>
                   challenge_phase[pk].slug # phases[i].slug
        /\ (pc = "raised" /\ raised = "IntegrityError" /\ SluggedPhases # {}) =>
               \E i \in SluggedPhases, pk \in 1..Len(challenge_phase) :
                   /\ challenge_phase[pk].challenge = challenge_pk
                   /\ challenge_phase[pk].codename = phases[i].codename

\* the place of a kind of row in the order of persistence
Rank(kind) ==
    CASE kind = "Challenge" -> 1
      [] kind = "Leaderboard" -> 2
      [] kind = "ChallengePhase" -> 3
      [] kind = "DatasetSplit" -> 4
      [] kind = "ChallengePhaseSplit" -> 5
      [] kind = "ParticipantTeam" -> 6

\* the primary keys of the rows of a kind the running call has persisted
PksOf(kind) == {CreatedOf(kind)[i].pk : i \in 1..Len(CreatedOf(kind))}

\* the manifest-local ids, as dict keys, of a list of the manifest
IdsOf(entries) == {str(entries[i].id) : i \in 1..Len(entries)}

\* the rows of the running call were persisted in the fixed order, under one
\* challenge
PersistedInOrder ==
    /\ \A i, j \in 1..Len(created) :
           i < j => Rank(created[i].kind) <= Rank(created[j].kind)
    /\ created # <<>> => created[1].kind = "Challenge"
    /\ Len(CreatedOf("Challenge")) <= 1
    /\ \A pk \in PksOf("ChallengePhase") :
           challenge_phase[pk].challenge \in PksOf("Challenge")
    /\ \A pk \in PksOf("ChallengePhaseSplit") :
           /\ challenge_phase_split[pk].challenge_phase \in PksOf("ChallengePhase")
           /\ challenge_phase_split[pk].leaderboard \in PksOf("Leaderboard")
           /\ challenge_phase_split[pk].dataset_split \in PksOf("DatasetSplit")

\* the id mappings hold ids of the manifest of the running call and rows the
\* running call persisted, nothing of an earlier call
MappingsAreFresh ==
    (InCall /\ yaml_file_data # NoObject) =>
        /\ DOMAIN leaderboard_ids \subseteq IdsOf(zip_ref.manifest.leaderboard)
        /\ DOMAIN challenge_phase_ids \subseteq IdsOf(zip_ref.manifest.challenge_phases)
        /\ DOMAIN dataset_split_ids \subseteq IdsOf(zip_ref.manifest.dataset_splits)
        /\ \A k \in DOMAIN leaderboard_ids : leaderboard_ids[k] \in PksOf("Leaderboard")
        /\ \A k \in DOMAIN challenge_phase_ids :
               challenge_phase_ids[k] \in PksOf("ChallengePhase")
        /\ \A k \in DOMAIN dataset_split_ids :
               dataset_split_ids[k] \in PksOf("DatasetSplit")

\* the phase-split entry the loop is at names an id the manifest of the
\* running call has no entry for
AtUnmappedPhaseSplit ==
    /\ pc = "phase_split"
    /\ LET entry == zip_ref.manifest.challenge_phase_splits[idx] IN
       \/ str(entry.challenge_phase_id) \notin IdsOf(zip_ref.manifest.challenge_phases)
       \/ str(entry.leaderboard_id) \notin IdsOf(zip_ref.manifest.leaderboard)
       \/ str(entry.dataset_split_id) \notin IdsOf(zip_ref.manifest.dataset_splits)

\* C14: within one load_from_zip call rows are persisted in the order
\* challenge, leaderboards, phases, dataset splits, phase splits, host
\* participant team; a phase belongs to the challenge of the call and a
\* phase split references phase, leaderboard and split rows the call
\* persisted before it; a phase-split entry naming an id without a recorded
\* mapping aborts the call and persists nothing; the id mappings are those
\* of the running call only.
C14_FixedOrderFreshMappings ==
    /\ [](PersistedInOrder /\ MappingsAreFresh)
    /\ [][AtUnmappedPhaseSplit =>
              /\ pc' = "raised"
              /\ raised' = "KeyError"
              /\ UNCHANGED <<dbvars, created>>]_vars

\* a second call stopped at a phase-split entry whose leaderboard id it has
\* no mapping for, after an earlier call mapped that id; its first phase
\* split is persisted
C14_Witness ==
    /\ calls = 2
    /\ pc = "raised"
    /\ raised = "KeyError"
    /\ Len(CreatedOf("ChallengePhaseSplit")) = 1
    /\ Len(CreatedOf("Leaderboard")) = 1
    /\ Len(leaderboard) = 3
    /\ str(zip_ref.manifest.challenge_phase_splits[idx].leaderboard_id)
           \notin DOMAIN leaderboard_ids

\* C16: a run() that fails leaves the tables as it found them, whichever
\* step of add_challenge failed; a run() that succeeds leaves the challenge
\* it loaded persisted and approved.
C16_RunIsAllOrNothing ==
    /\ run_pc = "failed" => Tables = run_start
    /\ run_pc = "done" =>
           /\ challenge_pk > Len(run_start.challenge)
           /\ challenge_pk <= Len(challenge)
           /\ challenge[challenge_pk].approved_by_admin

\* a run that created the host user, the team, the ChallengeHost row, the
\* challenge and all its rows failed when the host team was enrolled, and
\* none of the rows is left
C16_Witness ==
    /\ run_pc = "failed"
    /\ pc = "raised"
    /\ raised = "DoesNotExist"
    /\ Len(CreatedOf("ChallengePhaseSplit")) = 1
    /\ run_start.auth_user = <<>>
    /\ auth_user = <<>>
    /\ challenge = run_start.challenge
    /\ challenge_host = <<>>

====
